---- MODULE Spec2Model ----
(***************************************************************************)
(* Model of app-seb-probing.py: a Dash application that loads the .vtp     *)
(* surface meshes of a vehicle into the module-level cache vtk_datasets,   *)
(* then serves two callbacks: update_scene (dropdown "surfcolor" ->        *)
(* mapper / colorDataRange of every part and the view's triggerRender)     *)
(* and probe_data (hover info -> tooltip text and cone glyph state).       *)
(*                                                                         *)
(* Python floats are modelled as exact rationals <<n, d>>; the meshes of   *)
(* the data directory carry integer coordinates and field values, and      *)
(* vectors whose Euclidean norm is an integer, so that ** 0.5 is exact.    *)
(* A Python exception is modelled as the status of the callback's result.  *)
(***************************************************************************)
EXTENDS Integers, Sequences, FiniteSets, TLC

\* Hover coordinates range over (0..MaxCoord) x (0..1) x {0}.
MaxCoord == 1
\* random.random() draws from 0..MaxRandom.
MaxRandom == 1

VARIABLES
  phase,          \* "loading" while the module body runs, then "serving"
  pendingFiles,   \* what is left of glob.glob(...) for the loop of line 49
  vtk_datasets,   \* the mesh cache: part name -> mesh
  vehicle_vtk,    \* ids of the GeometryRepresentations, in creation order
  mapper,         \* property "mapper" of each part's representation
  colorDataRange, \* property "colorDataRange" of each part's representation
  triggerRender,  \* property "triggerRender" of vtk-view
  tooltip,        \* property "children" of the html.Pre "tooltip"
  pointer,        \* property "state" of the cone Algorithm "pointer"
  lastCall,       \* the last callback invocation: handler, input, result
  history,        \* every (selected value, mapper, range) update_scene computed
  repeated        \* some value was selected again after update_scene computed it

vars == <<phase, pendingFiles, vtk_datasets, vehicle_vtk, mapper, colorDataRange,
          triggerRender, tooltip, pointer, lastCall, history, repeated>>

(***************************************************************************)
(* Python values                                                           *)
(***************************************************************************)
None == [py |-> "None"]
Str(s) == [py |-> "str", s |-> s]
Dict(d) == [py |-> "dict", d |-> d]
EmptyDict == [k \in {} |-> 0]

\* d[k] = v on a dict
DictSet(d, k, v) == [x \in DOMAIN d \cup {k} |-> IF x = k THEN v ELSE d[x]]

\* dash.no_update, and a value a callback returns for an output
no_update == [out |-> "no_update"]
Value(v) == [out |-> "value", value |-> v]

\* a property of a component no callback has set yet
Unset == [prop |-> "unset"]
Set(v) == [prop |-> "set", value |-> v]

(***************************************************************************)
(* Float arithmetic, as exact rationals <<numerator, denominator>>         *)
(***************************************************************************)
Abs(n) == IF n < 0 THEN -n ELSE n

RECURSIVE GCD(_, _)
GCD(a, b) == IF b = 0 THEN a ELSE GCD(b, a % b)

Rat(n, d) ==
  LET g == GCD(Abs(n), Abs(d))
      s == IF d < 0 THEN -1 ELSE 1
  IN  <<(s * n) \div g, (s * d) \div g>>

Float(i) == <<i, 1>>
RMul(a, b) == Rat(a[1] * b[1], a[2] * b[2])
RSub(a, b) == Rat(a[1] * b[2] - b[1] * a[2], a[2] * b[2])
RDiv(a, b) == Rat(a[1] * b[2], a[2] * b[1])
IsZero(a) == a[1] = 0

\* x ** 0.5 of a perfect square
Sqrt(n) == CHOOSE r \in 0..n : r * r = n

\* f'{x:.2f}': round to hundredths (ties to even), sign, integer part, 2 digits
Fmt2(x) ==
  LET num == Abs(x[1]) * 100
      q   == num \div x[2]
      rem == num % x[2]
      h   == IF 2 * rem > x[2] \/ (2 * rem = x[2] /\ q % 2 = 1) THEN q + 1 ELSE q
      frac == h % 100
  IN  (IF x[1] < 0 THEN "-" ELSE "") \o ToString(h \div 100) \o "."
        \o (IF frac < 10 THEN "0" ELSE "") \o ToString(frac)

\* sep.join(strs)
RECURSIVE Join(_, _)
Join(sep, strs) ==
  IF strs = <<>> THEN ""
  ELSE IF Len(strs) = 1 THEN strs[1]
  ELSE strs[1] \o sep \o Join(sep, Tail(strs))

\* needle in hay, on strings given as sequences of characters
Contains(needle, hay) ==
  \E i \in 1..(Len(hay) - Len(needle) + 1) :
    SubSeq(hay, i, i + Len(needle) - 1) = needle

(***************************************************************************)
(* The data directory: data/vehicle/*.vtp                                  *)
(***************************************************************************)
\* a point-data array: name, number of components, flat value storage
Array(name, nb_comp, data) == [name |-> name, nb_comp |-> nb_comp, data |-> data]

BodyMesh ==
  [points |-> << <<0, 0, 0>>, <<1, 0, 0>>, <<0, 1, 0>> >>,
   arrays |-> << Array("U", 3, <<3, 4, 0,  0, 0, 2,  2, 3, 6>>),
                 Array("p", 1, <<1000, -50, 0>>) >>]

WheelMesh ==
  [points |-> << <<0, 0, 0>>, <<1, 1, 0>> >>,
   arrays |-> << Array("p", 1, <<5, 7>>),
                 Array("U", 3, <<0, 0, 0,  0, 3, 4>>) >>]

GlassMesh ==
  [points |-> << <<1, 0, 0>> >>,
   arrays |-> << Array("p", 1, <<2000>>),
                 Array("k", 1, <<3>>),
                 Array("tcoords", 2, <<0, 1>>) >>]

MirrorMesh ==
  [points |-> << <<0, 1, 0>>, <<1, 1, 0>>, <<1, 0, 0>> >>,
   arrays |-> << Array("U", 3, <<3, 4, 0,  6, 8, 0,  0, 0, 0>>),
                 Array("p", 1, <<-4464, 1700, 12>>),
                 Array("W", 3, <<0, 0, 2,  1, 2, 2,  0, 0, 1>>) >>]

EmptyMesh ==
  [points |-> <<>>,
   arrays |-> << Array("U", 3, <<>>), Array("p", 1, <<>>) >>]

\* a path is a sequence of tokens; "/" separates, ".vtp" is the extension
Path(stem) == <<"data", "/", "vehicle", "/", stem, ".vtp">>

\* the listings glob.glob may return (the order is the file system's)
GlobResults ==
  { <<Path("body"), Path("wheel"), Path("glass"), Path("mirror"), Path("empty")>>,
    <<Path("wheel"), Path("body")>> }

\* vtkXMLPolyDataReader: the mesh stored in a file
ReadFile(filepath) ==
  CASE filepath = Path("body")   -> BodyMesh
    [] filepath = Path("wheel")  -> WheelMesh
    [] filepath = Path("glass")  -> GlassMesh
    [] filepath = Path("mirror") -> MirrorMesh
    [] filepath = Path("empty")  -> EmptyMesh

\* filepath.split("/")[-1].replace(".vtp", "")
RECURSIVE LastSegment(_)
LastSegment(tokens) ==
  IF tokens = <<>> THEN <<>>
  ELSE IF \E i \in 1..Len(tokens) : tokens[i] = "/"
       THEN LastSegment(Tail(tokens))
       ELSE tokens

RECURSIVE Concat(_)
Concat(tokens) == IF tokens = <<>> THEN "" ELSE tokens[1] \o Concat(Tail(tokens))

PartName(filepath) ==
  Concat(SelectSeq(LastSegment(filepath), LAMBDA t : t # ".vtp"))

(***************************************************************************)
(* Module body: populate the scene, then serve                             *)
(***************************************************************************)
\* _load_vtp: cache the mesh under the part name derived from the path
LoadVtp(cache, filepath) == DictSet(cache, PartName(filepath), ReadFile(filepath))

Init ==
  /\ phase = "loading"
  /\ pendingFiles \in GlobResults
  /\ vtk_datasets = EmptyDict
  /\ vehicle_vtk = <<>>
  /\ mapper = EmptyDict
  /\ colorDataRange = EmptyDict
  /\ triggerRender = Unset
  /\ tooltip = Unset
  /\ pointer = Unset
  /\ lastCall = [handler |-> "none"]
  /\ history = {}
  /\ repeated = FALSE

\* one iteration of the loop "for filename in glob.glob(...)"
LoadNext ==
  /\ phase = "loading"
  /\ pendingFiles # <<>>
  /\ LET filename  == Head(pendingFiles)
         part_name == PartName(filename)
     IN  /\ vtk_datasets' = LoadVtp(vtk_datasets, filename)
         /\ vehicle_vtk' = Append(vehicle_vtk, part_name)
         /\ mapper' = DictSet(mapper, part_name, [scalarVisibility |-> FALSE])
         /\ colorDataRange' = DictSet(colorDataRange, part_name, <<0, 100>>)
  /\ pendingFiles' = Tail(pendingFiles)
  /\ UNCHANGED <<phase, triggerRender, tooltip, pointer, lastCall, history, repeated>>

\* the loop is over: layout, callback registration, app.run_server
StartServer ==
  /\ phase = "loading"
  /\ pendingFiles = <<>>
  /\ phase' = "serving"
  /\ UNCHANGED <<pendingFiles, vtk_datasets, vehicle_vtk, mapper, colorDataRange,
                 triggerRender, tooltip, pointer, lastCall, history, repeated>>

(***************************************************************************)
(* update_scene                                                            *)
(***************************************************************************)
COLOR_RANGES_p_reversed ==
  [solid |-> <<0, 1>>, U |-> <<0, 100>>, p |-> <<1700, -4464>>]

COLOR_RANGES ==
  [solid |-> <<0, 1>>, U |-> <<0, 100>>, p |-> <<-4464, 1700>>]

\* the values the dropdown can send: its three options, or None when cleared
SurfcolorValues == {Str("solid"), Str("U"), Str("p"), None}

Chars_surfcolor == <<"s", "u", "r", "f", "c", "o", "l", "o", "r">>
PropId_surfcolor_value == Chars_surfcolor \o <<".", "v", "a", "l", "u", "e">>
PropId_none == <<".">>

\* dash.callback_context.triggered: empty, the "." placeholder of a call no
\* input triggered, or the one Input of the callback
TriggeredInputs ==
  { <<>>, <<[prop_id |-> PropId_none, value |-> None]>> }
    \cup { <<[prop_id |-> PropId_surfcolor_value, value |-> v]>> : v \in SurfcolorValues }

\* triggered and "surfcolor" in triggered[0]["prop_id"]
FiredBySurfcolor(triggered) ==
  /\ triggered # <<>>
  /\ Contains(Chars_surfcolor, triggered[1].prop_id)

\* a mapper that updates the dict the first part currently shows
ColorMapperStale(value) ==
  LET prev == IF vehicle_vtk = <<>> THEN [scalarVisibility |-> FALSE]
              ELSE mapper[vehicle_vtk[1]]
  IN  IF value = Str("solid")
      THEN DictSet(prev, "scalarVisibility", FALSE)
      ELSE DictSet(DictSet(prev, "colorByArrayName", value.s), "scalarVisibility", TRUE)

\* the mapper of lines 146-153
ColorMapper(value) ==
  IF value = Str("solid")
  THEN [scalarVisibility |-> FALSE]
  ELSE [colorByArrayName |-> value.s,
        scalarMode |-> 3,
        interpolateScalarsBeforeMapping |-> TRUE,
        scalarVisibility |-> TRUE]

\* [x for item in vehicle_vtk]
Repeat(x) == [i \in 1..Len(vehicle_vtk) |-> x]

\* the callback's result: an exception, or the returned list
Raise(exc) == [status |-> exc, ret |-> <<>>]
Return(ret) == [status |-> "ok", ret |-> ret]

update_scene_result(triggered, rnd) ==
  IF FiredBySurfcolor(triggered)
  THEN LET value == triggered[1].value
       IN  IF ~(value.py = "str" /\ value.s \in DOMAIN COLOR_RANGES)
           THEN Raise("KeyError")
           ELSE Return(<<Value(rnd)>>
                         \o Repeat(Value(ColorMapper(value)))
                         \o Repeat(Value(COLOR_RANGES[value.s])))
  ELSE Return(<<Value(rnd)>> \o Repeat(no_update) \o Repeat(no_update))

\* Dash writes a returned output to its property unless it is no_update
Write(old, out) == IF out = no_update THEN old ELSE Set(out.value)
WritePart(old, out) == IF out = no_update THEN old ELSE out.value

update_scene(triggered, rnd) ==
  /\ phase = "serving"
  /\ LET r == update_scene_result(triggered, rnd)
         n == Len(vehicle_vtk)
     IN  /\ lastCall' = [handler |-> "update_scene", input |-> triggered, result |-> r]
         /\ IF r.status = "ok"
            THEN /\ triggerRender' = Write(triggerRender, r.ret[1])
                 /\ mapper' = [id \in DOMAIN mapper |->
                       LET i == CHOOSE j \in 1..n : vehicle_vtk[j] = id
                       IN  WritePart(mapper[id], r.ret[1 + i])]
                 /\ colorDataRange' = [id \in DOMAIN colorDataRange |->
                       LET i == CHOOSE j \in 1..n : vehicle_vtk[j] = id
                       IN  WritePart(colorDataRange[id], r.ret[1 + n + i])]
            ELSE UNCHANGED <<triggerRender, mapper, colorDataRange>>
         /\ history' = IF r.status = "ok" /\ FiredBySurfcolor(triggered) /\ n > 0
                       THEN history \cup
                              {<<triggered[1].value.s, r.ret[2].value, r.ret[2 + n].value>>}
                       ELSE history
         /\ repeated' = (repeated \/ (r.status = "ok" /\ FiredBySurfcolor(triggered)
                           /\ \E h \in history : h[1] = triggered[1].value.s))
  /\ UNCHANGED <<phase, pendingFiles, vtk_datasets, vehicle_vtk, tooltip, pointer>>

(***************************************************************************)
(* probe_data                                                              *)
(***************************************************************************)
SCALE_P == <<1, 10000>>
SCALE_U == <<1, 100>>

\* the hover coordinates the view can report
WorldPositions == {<<x, y, 0>> : x \in 0..MaxCoord, y \in 0..1}

\* ids a hover can carry: the vehicle's parts and one no file provides
RepresentationIds == {"body", "wheel", "glass", "mirror", "empty", "ghost"}

\* hoverInfo: None, {}, a pick without representationId, a pick of a part
HoverInfos ==
  {None, Dict(EmptyDict)}
    \cup {Dict([worldPosition |-> x]) : x \in WorldPositions}
    \cup {Dict([representationId |-> id, worldPosition |-> x]) :
            id \in RepresentationIds, x \in WorldPositions}

\* "if info:" - None and the empty dict are falsy
Truthy(info) == info.py = "dict" /\ DOMAIN info.d # {}

Dist2(a, b) ==
  (a[1] - b[1]) * (a[1] - b[1]) + (a[2] - b[2]) * (a[2] - b[2])
    + (a[3] - b[3]) * (a[3] - b[3])

\* mesh.FindPoint(x): the index of a closest point (any of them on a tie),
\* -1 when the mesh has no point
FindPoint(mesh, x) ==
  IF mesh.points = <<>> THEN {-1}
  ELSE {i - 1 : i \in {j \in 1..Len(mesh.points) :
          \A k \in 1..Len(mesh.points) :
            Dist2(mesh.points[j], x) <= Dist2(mesh.points[k], x)}}

\* mesh.GetPoints().GetPoint(idx), array.GetValue(idx), array.GetTuple3(idx)
GetPoint(mesh, idx) == [a \in 1..3 |-> Float(mesh.points[idx + 1][a])]
GetValue(array, idx) == Float(array.data[idx + 1])
GetTuple3(array, idx) == [a \in 1..3 |-> Float(array.data[3 * idx + a])]

\* (value[0] ** 2 + value[1] ** 2 + value[2] ** 2) ** 0.5
Norm(value) ==
  Float(Sqrt(value[1][1] * value[1][1] + value[2][1] * value[2][1]
               + value[3][1] * value[3][1]))

\* the text appended to messages for one array (lines 194-203, 211)
MessageOf(array, idx) ==
  LET value_str ==
        IF array.nb_comp = 3
        THEN Join(", ", [a \in 1..3 |-> Fmt2(GetTuple3(array, idx)[a])])
        ELSE Fmt2(GetValue(array, idx))
      norm_str ==
        IF array.nb_comp = 3
        THEN " norm(" \o Fmt2(Norm(GetTuple3(array, idx))) \o ")"
        ELSE ""
  IN  array.name \o ": " \o value_str \o " " \o norm_str

\* the local variables the loop of line 192 carries
Locals(cone_state, messages, exc) ==
  [cone_state |-> cone_state, messages |-> messages, exc |-> exc]

\* a loop body that keeps the first 3-component array's height and direction
ArrayStepFirstWins(array, idx, st) ==
  LET value == GetTuple3(array, idx)
      norm  == Norm(value)
      keep  == "height" \in DOMAIN st.cone_state
      cs1 == IF array.nb_comp = 3 /\ ~keep
             THEN DictSet(st.cone_state, "height", RMul(SCALE_U, norm))
             ELSE st.cone_state
      div0 == array.nb_comp = 3 /\ IsZero(norm)
      cs2 == IF array.nb_comp = 3 /\ ~div0 /\ ~keep
             THEN DictSet(cs1, "direction", [a \in 1..3 |-> RDiv(value[a], norm)])
             ELSE cs1
      cs3 == IF array.name = "p"
             THEN DictSet(cs2, "radius", RMul(GetValue(array, idx), SCALE_P))
             ELSE cs2
  IN  IF st.exc # "ok" THEN st
      ELSE IF div0 THEN Locals(cs1, st.messages, "ZeroDivisionError")
      ELSE Locals(cs3, Append(st.messages, MessageOf(array, idx)), "ok")

\* one iteration of the loop over the point-data arrays (lines 193-211)
ArrayStep(array, idx, st) ==
  LET value == GetTuple3(array, idx)
      norm  == Norm(value)
      cs1 == IF array.nb_comp = 3
             THEN DictSet(st.cone_state, "height", RMul(SCALE_U, norm))
             ELSE st.cone_state
      div0 == array.nb_comp = 3 /\ IsZero(norm)
      cs2 == IF array.nb_comp = 3 /\ ~div0
             THEN DictSet(cs1, "direction", [a \in 1..3 |-> RDiv(value[a], norm)])
             ELSE cs1
      cs3 == IF array.name = "p"
             THEN DictSet(cs2, "radius", RMul(GetValue(array, idx), SCALE_P))
             ELSE cs2
  IN  IF st.exc # "ok" THEN st
      ELSE IF div0 THEN Locals(cs1, st.messages, "ZeroDivisionError")
      ELSE Locals(cs3, Append(st.messages, MessageOf(array, idx)), "ok")

\* for i in range(size): ...
RECURSIVE ArrayLoop(_, _, _, _)
ArrayLoop(arrays, i, idx, st) ==
  IF i > Len(arrays) THEN st
  ELSE ArrayLoop(arrays, i + 1, idx, ArrayStep(arrays[i], idx, st))

\* a recentering that moves the cone forward instead of back
RecenterForward(cone_state) ==
  IF "height" \in DOMAIN cone_state
  THEN DictSet(cone_state, "center",
         [a \in 1..3 |->
            RSub(cone_state.center[a],
                 RMul(RMul(<<-1, 2>>, cone_state.height), cone_state.direction[a]))])
  ELSE cone_state

\* lines 213-217: move the center back by half the cone's height
Recenter(cone_state) ==
  IF "height" \in DOMAIN cone_state
  THEN DictSet(cone_state, "center",
         [a \in 1..3 |->
            RSub(cone_state.center[a],
                 RMul(RMul(<<1, 2>>, cone_state.height), cone_state.direction[a]))])
  ELSE cone_state

\* a cone state that starts with a center
InitialConeStateCentered == [resolution |-> 12, center |-> [a \in 1..3 |-> Float(0)]]

\* line 178
InitialConeState == [resolution |-> 12]

\* messages before "messages = []" has run
Unbound == [bound |-> FALSE]

\* lines 184-219 on a mesh of the cache, idx being what FindPoint returned
ProbeMesh(mesh, idx) ==
  LET st0 == Locals(InitialConeState, Unbound, "ok")
      st1 == IF idx > -1
             THEN ArrayLoop(mesh.arrays, 1, idx,
                    Locals(DictSet(InitialConeState, "center", GetPoint(mesh, idx)),
                           <<>>, "ok"))
             ELSE st0
  IN  IF st1.exc # "ok" THEN Raise(st1.exc)
      ELSE IF st1.messages = Unbound THEN Raise("UnboundLocalError")
      ELSE Return(<<Value(<<Join("\n", st1.messages)>>),
                    Value(Recenter(st1.cone_state))>>)

\* ProbeMesh, tabulated over the meshes of the data directory
MeshesOnDisk == {BodyMesh, WheelMesh, GlassMesh, MirrorMesh, EmptyMesh}
ProbeMemo ==
  [mesh \in MeshesOnDisk |-> [idx \in -1..(Len(mesh.points) - 1) |-> ProbeMesh(mesh, idx)]]

\* FindPoint, tabulated over the same meshes and the hover coordinates
FindPointMemo ==
  [mesh \in MeshesOnDisk |-> [x \in WorldPositions |-> FindPoint(mesh, x)]]

\* probe_data, with idx the index mesh.FindPoint returns when it is called
\* (a vtkPolyData is always truthy, so "if mesh:" never takes its else side;
\* a missing key raises at the subscript of line 183)
probe_data_result(info, idx) ==
  IF ~Truthy(info)
  THEN Return(<<Value(<<"">>), Value(InitialConeState)>>)
  ELSE IF "representationId" \notin DOMAIN info.d
  THEN Return(<<no_update, no_update>>)
  ELSE IF info.d.representationId \notin DOMAIN vtk_datasets
  THEN Raise("KeyError")
  ELSE
    ProbeMemo[vtk_datasets[info.d.representationId]][idx]

\* the indices FindPoint can return for this hover (0 where it is not called)
FindPointResults(info) ==
  IF Truthy(info) /\ "representationId" \in DOMAIN info.d
       /\ info.d.representationId \in DOMAIN vtk_datasets
  THEN FindPointMemo[vtk_datasets[info.d.representationId]][info.d.worldPosition]
  ELSE {0}

\* what a hover event does to the page
ProbeEffects(info) ==
  /\ phase = "serving"
  /\ \E idx \in FindPointResults(info) :
       LET r == probe_data_result(info, idx)
       IN  /\ lastCall' = [handler |-> "probe_data", input |-> info, idx |-> idx,
                           result |-> r]
           /\ IF r.status = "ok"
              THEN /\ tooltip' = Write(tooltip, r.ret[1])
                   /\ pointer' = Write(pointer, r.ret[2])
              ELSE UNCHANGED <<tooltip, pointer>>
  /\ UNCHANGED <<phase, pendingFiles, vehicle_vtk, mapper, colorDataRange,
                 triggerRender, history, repeated>>

\* a cache that inserts an empty mesh for a part it does not know
probe_data_defaultdict(info) ==
  /\ ProbeEffects(info)
  /\ vtk_datasets' =
       IF Truthy(info) /\ "representationId" \in DOMAIN info.d
       THEN IF info.d.representationId \in DOMAIN vtk_datasets THEN vtk_datasets
            ELSE DictSet(vtk_datasets, info.d.representationId, EmptyMesh)
       ELSE vtk_datasets

probe_data(info) ==
  /\ ProbeEffects(info)
  /\ UNCHANGED vtk_datasets

(***************************************************************************)
(* The program                                                             *)
(***************************************************************************)
Next ==
  \/ LoadNext
  \/ StartServer
  \/ \E triggered \in TriggeredInputs, rnd \in 0..MaxRandom : update_scene(triggered, rnd)
  \/ \E info \in HoverInfos : probe_data(info)

Spec == Init /\ [][Next]_vars

(***************************************************************************)
(* Properties                                                              *)
(***************************************************************************)
CalledUpdate == lastCall.handler = "update_scene"
CalledProbe == lastCall.handler = "probe_data"

\* the last call was update_scene, fired by the dropdown with the option f
SelectedOption(f) ==
  /\ CalledUpdate
  /\ lastCall.input # <<>>
  /\ lastCall.input[1].prop_id = PropId_surfcolor_value
  /\ lastCall.input[1].value = Str(f)

\* the last call was update_scene, fired by nothing or not by the dropdown
SpuriousUpdate ==
  /\ CalledUpdate
  /\ \/ lastCall.input = <<>>
     \/ lastCall.input[1].prop_id # PropId_surfcolor_value

\* the last call was probe_data with a hover that names a part
HoverOnPart ==
  /\ CalledProbe
  /\ lastCall.input.py = "dict"
  /\ "representationId" \in DOMAIN lastCall.input.d

HoverOnKnownPart ==
  /\ HoverOnPart
  /\ lastCall.input.d.representationId \in DOMAIN vtk_datasets

HoverOnUnknownPart ==
  /\ HoverOnPart
  /\ lastCall.input.d.representationId \notin DOMAIN vtk_datasets

\* the mesh and point of the last probe
ProbedMesh == vtk_datasets[lastCall.input.d.representationId]
ProbedPoint == ProbedMesh.points[lastCall.idx + 1]

\* the last call was probe_data, found a point and returned a glyph
SuccessfulProbe ==
  /\ HoverOnKnownPart
  /\ lastCall.idx > -1
  /\ lastCall.result.status = "ok"

EmittedTooltip == lastCall.result.ret[1].value
EmittedGlyph == lastCall.result.ret[2].value

\* "no probe": an empty tooltip and a glyph state with resolution 12 alone
NoProbe == Return(<<Value(<<"">>), Value([resolution |-> 12])>>)

VectorArrays(mesh) == {i \in 1..Len(mesh.arrays) : mesh.arrays[i].nb_comp = 3}

\* C1: when update_scene fires without a change of the dropdown, every
\* output it returns (triggerRender, each mapper, each colorDataRange) is
\* dash.no_update.
C1_SpuriousUpdateReturnsNoUpdateOnly ==
  SpuriousUpdate =>
    /\ lastCall.result.status = "ok"
    /\ \A i \in 1..Len(lastCall.result.ret) : lastCall.result.ret[i] = no_update

\* C2: a hover whose representationId is not a key of vtk_datasets makes
\* probe_data return "no probe" without raising.
C2_UnknownPartIsNoProbe ==
  HoverOnUnknownPart => lastCall.result = NoProbe

\* C3: a hover on a cached part for which FindPoint returns -1 makes
\* probe_data return "no probe" without raising.
C3_PointNotFoundIsNoProbe ==
  (HoverOnKnownPart /\ lastCall.idx = -1) => lastCall.result = NoProbe

\* C4: a selection of solid, U or p gives every part the same mapper and the
\* same range: solid disables scalar coloring with range [0, 1]; U and p
\* enable coloring by that array with ranges [0, 100] and [-4464, 1700].
C4_SelectionBroadcastsOneConfiguration ==
  \A f \in {"solid", "U", "p"} :
    SelectedOption(f) =>
      /\ lastCall.result.status = "ok"
      /\ Len(lastCall.result.ret) = 1 + 2 * Len(vehicle_vtk)
      /\ \A i \in 1..Len(vehicle_vtk) :
           LET m == lastCall.result.ret[1 + i]
               r == lastCall.result.ret[1 + Len(vehicle_vtk) + i]
           IN  /\ m.out = "value" /\ r.out = "value"
               /\ m = lastCall.result.ret[2]
               /\ r = lastCall.result.ret[2 + Len(vehicle_vtk)]
               /\ mapper[vehicle_vtk[i]] = m.value
               /\ colorDataRange[vehicle_vtk[i]] = r.value
               /\ IF f = "solid"
                  THEN m.value.scalarVisibility = FALSE /\ r.value = <<0, 1>>
                  ELSE /\ m.value.scalarVisibility = TRUE
                       /\ m.value.colorByArrayName = f
                       /\ r.value = (IF f = "U" THEN <<0, 100>> ELSE <<-4464, 1700>>)

C4_Witness ==
  /\ SelectedOption("p")
  /\ lastCall.result.status = "ok"
  /\ Len(vehicle_vtk) > 1
  /\ \A i \in 1..Len(vehicle_vtk) : colorDataRange[vehicle_vtk[i]] = <<-4464, 1700>>

\* C5: with no hover (None or an empty dict) probe_data returns the empty
\* tooltip text and a glyph state holding resolution = 12 and nothing else.
C5_AbsentHoverIsNoProbe ==
  (CalledProbe /\ (lastCall.input = None \/ lastCall.input = Dict(EmptyDict))) =>
    /\ lastCall.result = NoProbe
    /\ tooltip = Set(<<"">>)
    /\ pointer = Set([resolution |-> 12])

C5_Witness ==
  /\ CalledProbe
  /\ lastCall.input = None
  /\ tooltip = Set(<<"">>)
  /\ DOMAIN pointer.value = {"resolution"}

\* C6: a hover whose probed point carries a 3-component array with the zero
\* vector still makes probe_data return a tooltip and a glyph state.
C6_ZeroVectorStillReturns ==
  (/\ HoverOnKnownPart
   /\ lastCall.idx > -1
   /\ \E i \in VectorArrays(ProbedMesh) :
        \A a \in 1..3 : ProbedMesh.arrays[i].data[3 * lastCall.idx + a] = 0)
    => lastCall.result.status = "ok"

\* C7: the mapper and range update_scene computes depend on the selected
\* value alone: whatever happened before, the same value gave the same pair.
C7_ColorMappingIsAFunctionOfTheSelection ==
  \A g \in history, h \in history : g[1] = h[1] => g = h

C7_Witness ==
  /\ repeated
  /\ Cardinality(history) = 3
  /\ pointer # Unset

\* C8: after a successful probe at point P, the emitted center is
\* P - 0.5 * height * direction on each axis when a 3-component array gave a
\* height and a direction, and P itself, with no height and no direction,
\* when the mesh has no 3-component array.
C8_CenterIsRecenteredIffHeight ==
  SuccessfulProbe =>
    IF VectorArrays(ProbedMesh) # {}
    THEN /\ {"height", "direction"} \subseteq DOMAIN EmittedGlyph
         /\ \A a \in 1..3 :
              EmittedGlyph.center[a] =
                RSub(Float(ProbedPoint[a]),
                     RMul(RMul(<<1, 2>>, EmittedGlyph.height), EmittedGlyph.direction[a]))
    ELSE /\ "height" \notin DOMAIN EmittedGlyph
         /\ "direction" \notin DOMAIN EmittedGlyph
         /\ EmittedGlyph.center = [a \in 1..3 |-> Float(ProbedPoint[a])]

C8_Witness ==
  /\ SuccessfulProbe
  /\ "height" \in DOMAIN EmittedGlyph
  /\ EmittedGlyph.center # [a \in 1..3 |-> Float(ProbedPoint[a])]

\* C9: when the probed mesh has several 3-component arrays, the emitted
\* height and direction are those of the last one in the mesh's array order
\* (height = SCALE_U * norm, direction = vector / norm), and the tooltip has
\* one line per array in that order.
C9_LastVectorArrayWins ==
  (SuccessfulProbe /\ Cardinality(VectorArrays(ProbedMesh)) >= 2) =>
    LET last == CHOOSE i \in VectorArrays(ProbedMesh) :
                  \A j \in VectorArrays(ProbedMesh) : j <= i
        v  == [a \in 1..3 |-> ProbedMesh.arrays[last].data[3 * lastCall.idx + a]]
        h  == EmittedGlyph.height
    IN  /\ h[1] >= 0
        /\ h[1] * h[1] * 10000 = (v[1] * v[1] + v[2] * v[2] + v[3] * v[3]) * h[2] * h[2]
        /\ \A a \in 1..3 :
             RMul(RMul(EmittedGlyph.direction[a], h), Float(100)) = Float(v[a])
        /\ EmittedTooltip =
             <<Join("\n", [i \in 1..Len(ProbedMesh.arrays) |->
                             MessageOf(ProbedMesh.arrays[i], lastCall.idx)])>>

C9_Witness ==
  /\ SuccessfulProbe
  /\ lastCall.input.d.representationId = "mirror"
  /\ EmittedGlyph.height = <<3, 100>>
  /\ EmittedTooltip =
       <<"U: 6.00, 8.00, 0.00  norm(10.00)\np: 1700.00 \nW: 1.00, 2.00, 2.00  norm(3.00)">>

\* C10: once loading is over no step changes vtk_datasets (nor the list of
\* parts), and no step that writes the tooltip or the glyph writes a mapper,
\* a color range or the render trigger.
C10_CacheImmutableAfterLoad ==
  [][phase = "serving" =>
       /\ vtk_datasets' = vtk_datasets
       /\ vehicle_vtk' = vehicle_vtk
       /\ phase' = "serving"
       /\ (tooltip' # tooltip \/ pointer' # pointer) =>
            (mapper' = mapper /\ colorDataRange' = colorDataRange
               /\ triggerRender' = triggerRender)]_vars

C10_Witness ==
  /\ phase = "serving"
  /\ HoverOnUnknownPart
  /\ triggerRender # Unset
  /\ pointer # Unset
  /\ DOMAIN vtk_datasets = {"body", "wheel", "glass", "mirror", "empty"}
  /\ vtk_datasets["mirror"] = MirrorMesh

====
